---- MODULE Spec2Model ----
(***************************************************************************)
(* Dependency resolver (src/src/lib.rs): a tree of Nodes, the post-order   *)
(* walker behind get_dependancy_list and the identifier-tracking walker    *)
(* behind has_cycle.  Each call is executed step by step on an explicit    *)
(* stack of frames, so that calls can be interleaved and the tracking set  *)
(* can be observed during the traversal.                                   *)
(***************************************************************************)
EXTENDS Naturals, Sequences, FiniteSets

\* ------------------------------------------------------------------ bounds
\* Largest enumerated tree (nodes, root included) of the sequential runs.
MaxNodes == 4
\* Number of identifiers the enumerated trees draw from.
NumIds == 3
\* Largest enumerated tree of the interleaved runs.
ConcMaxNodes == 2
\* Number of calls that may be in flight together in the interleaved runs.
NumCalls == 2
\* Frames the call stack can hold before the process faults.
StackLimit == 6

\* ------------------------------------------------------------- identifiers
IdPool == <<"a", "b", "c", "d", "e">>

Ids == {IdPool[k] : k \in 1..NumIds}

\* Identifiers of the trees of the interleaved runs.
ConcIds == {"a", "b"}

\* -------------------------------------------------------------------- Node
\* struct Node { id: String, deps: Vec<Node> }
Node(id, deps) == [id |-> id, deps |-> deps]

Leaf(id) == Node(id, <<>>)

\* Option<T>: None is the empty tuple, Some(v) the one-element tuple.
None == <<>>

Some(v) == <<v>>

IsSome(o) == o # <<>>

\* All ways to write n >= 1 as an ordered sum of positive parts.
RECURSIVE Compositions(_)
Compositions(n) ==
  IF n = 0 THEN {<<>>}
  ELSE UNION {{<<k>> \o rest : rest \in Compositions(n - k)} : k \in 1..n}

\* Every Node value with exactly n nodes and identifiers drawn from ids.
RECURSIVE TreesOfSize(_, _)
RECURSIVE ForestsOfShape(_, _)
ForestsOfShape(shape, ids) ==
  IF shape = <<>> THEN {<<>>}
  ELSE {<<t>> \o rest : t \in TreesOfSize(shape[1], ids),
                        rest \in ForestsOfShape(Tail(shape), ids)}

TreesOfSize(n, ids) ==
  {Node(x, f) : x \in ids,
                f \in UNION {ForestsOfShape(s, ids) : s \in Compositions(n - 1)}}

TreesUpTo(n, ids) == UNION {TreesOfSize(k, ids) : k \in 1..n}

\* The graph of the test module's mock_dag().
mock_dag ==
  Node("MyLib", <<
    Node("a", <<Leaf("aa"), Leaf("ab")>>),
    Node("b", <<Node("ba", <<Leaf("baa")>>),
                Node("bb", <<Leaf("bba")>>),
                Leaf("bc")>>),
    Node("c", <<Leaf("ca")>>)>>)

\* The graph of the test module's mock_cycle(): bba gets a child named b.
mock_cycle ==
  Node("MyLib", <<
    Node("a", <<Leaf("aa"), Leaf("ab")>>),
    Node("b", <<Node("ba", <<Leaf("baa")>>),
                Node("bb", <<Node("bba", <<Leaf("b")>>)>>),
                Leaf("bc")>>),
    Node("c", <<Leaf("ca")>>)>>)

\* ------------------------------------------------- the code, statement level
\* `for dep in &self.deps`: the node the i-th iteration recurses into.
CalleeSelf(node, i) == node

Callee(node, i) == node.deps[i]

\* Body of walk's loop once dep.walk() has returned r (lines 36-39).
LoopBodyDirectOnly(stack, r, dep) == Append(stack, dep.id)

LoopBodyPushInsideIf(stack, r, dep) ==
  IF IsSome(r) THEN Append(stack \o r[1], dep.id) ELSE stack

LoopBodyIdFirst(stack, r, dep) ==
  Append(stack, dep.id) \o (IF IsSome(r) THEN r[1] ELSE <<>>)

LoopBody(stack, r, dep) ==
  Append(IF IsSome(r) THEN stack \o r[1] ELSE stack, dep.id)

\* get_dependancy_list's unwrapping of walk's Option (lines 22-26).
UnwrapListWithSelf(node, r) ==
  Append(IF IsSome(r) THEN r[1] ELSE <<>>, node.id)

UnwrapList(node, r) == IF IsSome(r) THEN r[1] ELSE <<>>

\* has_cycle's unwrapping of detect_cycles' Option (lines 50-54).
UnwrapFlagNoneIsTrue(r) == IF IsSome(r) THEN r[1] ELSE TRUE

UnwrapFlag(r) == IF IsSome(r) THEN r[1] ELSE FALSE

\* What detect_cycles does on entry (lines 62-70): the Option it returns at
\* once, or "go" to run the loop, and the tracking set afterwards.
EntryLeafFirst(node, visited) ==
  IF node.deps = <<>>
    THEN [ret |-> None, go |-> FALSE, visited |-> visited \cup {node.id}]
  ELSE IF node.id \in visited
    THEN [ret |-> Some(TRUE), go |-> FALSE, visited |-> visited]
  ELSE [ret |-> None, go |-> TRUE, visited |-> visited \cup {node.id}]

EntryNoInsert(node, visited) ==
  IF node.id \in visited
    THEN [ret |-> Some(TRUE), go |-> FALSE, visited |-> visited]
  ELSE [ret |-> None, go |-> node.deps # <<>>, visited |-> visited]

Entry(node, visited) ==
  IF node.id \in visited
    THEN [ret |-> Some(TRUE), go |-> FALSE, visited |-> visited]
  ELSE [ret |-> None, go |-> node.deps # <<>>,
        visited |-> visited \cup {node.id}]

\* The tracking set when detect_cycles returns from a node (lines 73-78):
\* nothing is removed.
OnReturnBacktrack(node, visited) == visited \ {node.id}

OnReturn(node, visited) == visited

\* ------------------------------------------------ the code, as functions
RECURSIVE walk(_)
RECURSIVE WalkFor(_, _, _)
WalkFor(node, i, stack) ==
  IF i > Len(node.deps) THEN stack
  ELSE WalkFor(node, i + 1,
               LoopBody(stack, walk(Callee(node, i)), node.deps[i]))

walk(node) ==
  IF node.deps = <<>> THEN None ELSE Some(WalkFor(node, 1, <<>>))

get_dependancy_list(node) == UnwrapList(node, walk(node))

RECURSIVE detect_cycles(_, _)
RECURSIVE DetectFor(_, _, _)
DetectFor(node, i, visited) ==
  IF i > Len(node.deps)
    THEN [ret |-> Some(FALSE), visited |-> OnReturn(node, visited)]
  ELSE LET r == detect_cycles(Callee(node, i), visited) IN
       IF r.ret = Some(TRUE)
         THEN [ret |-> Some(TRUE), visited |-> OnReturn(node, r.visited)]
       ELSE DetectFor(node, i + 1, r.visited)

detect_cycles(node, visited) ==
  LET e == Entry(node, visited) IN
  IF e.go THEN DetectFor(node, 1, e.visited)
  ELSE [ret |-> e.ret, visited |-> e.visited]

has_cycle(node) == UnwrapFlag(detect_cycles(node, {}).ret)

\* ------------------------------------------------------------ the state
VARIABLES
  tree,     \* the Node tree every call reads; never written after Init
  status,   \* per call: "idle", "running", "done" or "fault"
  op,       \* per call: "none", "walk" or "has_cycle"
  frames,   \* per call: its stack of frames, the innermost last
  ret,      \* per call: the Option the frame popped last returned
  visited,  \* per tracker: the NodeIdTracker of has_cycle
  entered,  \* per call: identifiers of the nodes detect_cycles was entered on
  result,   \* per call: None, or Some(value the public operation returned)
  overlap   \* per call: another call took a step while this one was running

vars == <<tree, status, op, frames, ret, visited, entered, result, overlap>>

Calls == 1..NumCalls

\* `let mut visited = NodeIdTracker::new()`: every call owns its tracker.
TrackerShared(c) == 1

TrackerOf(c) == c

Frame(node) == [node |-> node, pc |-> "entry", i |-> 0, stack |-> <<>>]

Top(c) == frames[c][Len(frames[c])]

Pop(c) == SubSeq(frames[c], 1, Len(frames[c]) - 1)

SetTop(c, f) == [frames[c] EXCEPT ![Len(frames[c])] = f]

Running(c, o) == status[c] = "running" /\ op[c] = o

At(c, o, pc) == Running(c, o) /\ frames[c] # <<>> /\ Top(c).pc = pc

\* Call c takes a step: every other call in progress has been overlapped.
Ran(c) ==
  overlap' = [d \in Calls |-> overlap[d] \/ (d # c /\ status[d] = "running")]

InitWith(trees) ==
  /\ tree \in trees
  /\ status = [c \in Calls |-> "idle"]
  /\ op = [c \in Calls |-> "none"]
  /\ frames = [c \in Calls |-> <<>>]
  /\ ret = [c \in Calls |-> None]
  /\ visited = [c \in Calls |-> {}]
  /\ entered = [c \in Calls |-> {}]
  /\ result = [c \in Calls |-> None]
  /\ overlap = [c \in Calls |-> FALSE]

Init == InitWith(TreesUpTo(MaxNodes, Ids) \cup {mock_dag, mock_cycle})

ConcInit == InitWith(TreesUpTo(ConcMaxNodes, ConcIds))

\* A caller invokes get_dependancy_list (o = "walk") or has_cycle on the tree.
Start(c, o) ==
  /\ status[c] = "idle"
  /\ status' = [status EXCEPT ![c] = "running"]
  /\ op' = [op EXCEPT ![c] = o]
  /\ frames' = [frames EXCEPT ![c] = <<Frame(tree)>>]
  /\ ret' = [ret EXCEPT ![c] = None]
  /\ visited' = IF o = "has_cycle"
                  THEN [visited EXCEPT ![TrackerOf(c)] = {}]
                  ELSE visited
  /\ entered' = [entered EXCEPT ![c] = {}]
  /\ result' = [result EXCEPT ![c] = None]
  /\ overlap' = [overlap EXCEPT ![c] = FALSE]
  /\ UNCHANGED tree

\* The call of frame f on node `callee`: a new frame, or a fault when the
\* stack is exhausted.
CallStep(c, f, callee) ==
  IF Len(frames[c]) >= StackLimit
    THEN /\ status' = [status EXCEPT ![c] = "fault"]
         /\ UNCHANGED frames
    ELSE /\ frames' = [frames EXCEPT ![c] =
                         Append(SetTop(c, [f EXCEPT !.pc = "recv"]),
                                Frame(callee))]
         /\ UNCHANGED status

\* walk, lines 31-34: a node without deps returns None, else the loop starts.
WalkEnter(c) ==
  /\ At(c, "walk", "entry")
  /\ Ran(c)
  /\ IF Top(c).node.deps = <<>>
       THEN /\ frames' = [frames EXCEPT ![c] = Pop(c)]
            /\ ret' = [ret EXCEPT ![c] = None]
       ELSE /\ frames' = [frames EXCEPT ![c] =
                    SetTop(c, [Top(c) EXCEPT !.pc = "loop", !.i = 1,
                                             !.stack = <<>>])]
            /\ UNCHANGED ret
  /\ UNCHANGED <<tree, status, op, visited, entered, result>>

\* walk, lines 35-36 and 41: recurse into the next dep, or return Some(stack).
WalkLoop(c) ==
  /\ At(c, "walk", "loop")
  /\ Ran(c)
  /\ LET f == Top(c) IN
     IF f.i <= Len(f.node.deps)
       THEN /\ CallStep(c, f, Callee(f.node, f.i))
            /\ UNCHANGED ret
       ELSE /\ frames' = [frames EXCEPT ![c] = Pop(c)]
            /\ ret' = [ret EXCEPT ![c] = Some(f.stack)]
            /\ UNCHANGED status
  /\ UNCHANGED <<tree, op, visited, entered, result>>

\* walk, lines 36-39: the dep's walk has returned.
WalkRecv(c) ==
  /\ At(c, "walk", "recv")
  /\ Ran(c)
  /\ LET f == Top(c) IN
     frames' = [frames EXCEPT ![c] =
        SetTop(c, [f EXCEPT !.pc = "loop", !.i = f.i + 1,
                            !.stack = LoopBody(f.stack, ret[c],
                                               f.node.deps[f.i])])]
  /\ ret' = [ret EXCEPT ![c] = None]
  /\ UNCHANGED <<tree, status, op, visited, entered, result>>

\* get_dependancy_list, lines 22-26: the root's walk has returned.
WalkDone(c) ==
  /\ Running(c, "walk")
  /\ Ran(c)
  /\ frames[c] = <<>>
  /\ status' = [status EXCEPT ![c] = "done"]
  /\ result' = [result EXCEPT ![c] = Some(UnwrapList(tree, ret[c]))]
  /\ UNCHANGED <<tree, op, frames, ret, visited, entered>>

\* detect_cycles, lines 62-70.
DetectEnter(c) ==
  /\ At(c, "has_cycle", "entry")
  /\ Ran(c)
  /\ LET f == Top(c)
         e == Entry(f.node, visited[TrackerOf(c)])
     IN /\ visited' = [visited EXCEPT ![TrackerOf(c)] = e.visited]
        /\ entered' = [entered EXCEPT ![c] = @ \cup {f.node.id}]
        /\ IF e.go
             THEN /\ frames' = [frames EXCEPT ![c] =
                        SetTop(c, [f EXCEPT !.pc = "loop", !.i = 1])]
                  /\ UNCHANGED ret
             ELSE /\ frames' = [frames EXCEPT ![c] = Pop(c)]
                  /\ ret' = [ret EXCEPT ![c] = e.ret]
  /\ UNCHANGED <<tree, status, op, result>>

\* detect_cycles, lines 72-73 and 78: recurse into the next dep, or return
\* Some(false).
DetectLoop(c) ==
  /\ At(c, "has_cycle", "loop")
  /\ Ran(c)
  /\ LET f == Top(c) IN
     IF f.i <= Len(f.node.deps)
       THEN /\ CallStep(c, f, Callee(f.node, f.i))
            /\ UNCHANGED <<ret, visited>>
       ELSE /\ frames' = [frames EXCEPT ![c] = Pop(c)]
            /\ ret' = [ret EXCEPT ![c] = Some(FALSE)]
            /\ visited' = [visited EXCEPT ![TrackerOf(c)] =
                             OnReturn(f.node, @)]
            /\ UNCHANGED status
  /\ UNCHANGED <<tree, op, entered, result>>

\* detect_cycles, lines 73-75: the dep's detect_cycles has returned.
DetectRecv(c) ==
  /\ At(c, "has_cycle", "recv")
  /\ Ran(c)
  /\ LET f == Top(c) IN
     IF ret[c] = Some(TRUE)
       THEN /\ frames' = [frames EXCEPT ![c] = Pop(c)]
            /\ visited' = [visited EXCEPT ![TrackerOf(c)] =
                             OnReturn(f.node, @)]
            /\ UNCHANGED ret
       ELSE /\ frames' = [frames EXCEPT ![c] =
                    SetTop(c, [f EXCEPT !.pc = "loop", !.i = f.i + 1])]
            /\ ret' = [ret EXCEPT ![c] = None]
            /\ UNCHANGED visited
  /\ UNCHANGED <<tree, status, op, entered, result>>

\* has_cycle, lines 50-54: the root's detect_cycles has returned.
DetectDone(c) ==
  /\ Running(c, "has_cycle")
  /\ Ran(c)
  /\ frames[c] = <<>>
  /\ status' = [status EXCEPT ![c] = "done"]
  /\ result' = [result EXCEPT ![c] = Some(UnwrapFlag(ret[c]))]
  /\ UNCHANGED <<tree, op, frames, ret, visited, entered>>

\* The caller has consumed the result; the call's locals are gone.
Drop(c) ==
  /\ status[c] = "done"
  /\ status' = [status EXCEPT ![c] = "idle"]
  /\ op' = [op EXCEPT ![c] = "none"]
  /\ ret' = [ret EXCEPT ![c] = None]
  /\ visited' = IF op[c] = "has_cycle"
                  THEN [visited EXCEPT ![TrackerOf(c)] = {}]
                  ELSE visited
  /\ entered' = [entered EXCEPT ![c] = {}]
  /\ result' = [result EXCEPT ![c] = None]
  /\ overlap' = [overlap EXCEPT ![c] = FALSE]
  /\ UNCHANGED <<tree, frames>>

\* One step of a call in progress.
Step(c) ==
  \/ WalkEnter(c)
  \/ WalkLoop(c)
  \/ WalkRecv(c)
  \/ WalkDone(c)
  \/ DetectEnter(c)
  \/ DetectLoop(c)
  \/ DetectRecv(c)
  \/ DetectDone(c)

\* One caller, one call after another.
SeqStart(o) == Start(1, o)

Next ==
  \/ \E o \in {"walk", "has_cycle"} : SeqStart(o)
  \/ Step(1)
  \/ Drop(1)

Spec == Init /\ [][Next]_vars

\* A call in progress keeps executing.
LiveSpec == Spec /\ WF_vars(Step(1))

\* Several callers, their steps interleaved in any order.
ConcNext ==
  \E c \in Calls :
    \/ \E o \in {"walk", "has_cycle"} : Start(c, o)
    \/ Step(c)
    \/ Drop(c)

ConcSpec == ConcInit /\ [][ConcNext]_vars

\* --------------------------------------------- vocabulary of the properties
\* The positions of a tree: the sequences of child indices leading to a node.
RECURSIVE Paths(_)
Paths(n) ==
  {<<>>} \cup UNION {{<<k>> \o p : p \in Paths(n.deps[k])} :
                     k \in 1..Len(n.deps)}

RECURSIVE NodeAt(_, _)
NodeAt(n, p) == IF p = <<>> THEN n ELSE NodeAt(n.deps[p[1]], Tail(p))

\* Position q lies strictly below position p.
Below(p, q) == Len(p) < Len(q) /\ SubSeq(q, 1, Len(p)) = p

Distinct(t) ==
  \A p \in Paths(t) : \A q \in Paths(t) :
    p # q => NodeAt(t, p).id # NodeAt(t, q).id

\* The reference post-order flattening F of claim C1.
RECURSIVE Flatten(_)
RECURSIVE FlattenFrom(_, _)
FlattenFrom(n, k) ==
  IF k > Len(n.deps) THEN <<>>
  ELSE (Flatten(n.deps[k]) \o <<n.deps[k].id>>) \o FlattenFrom(n, k + 1)

Flatten(n) == FlattenFrom(n, 1)

Occurrences(seq, x) == {k \in 1..Len(seq) : seq[k] = x}

HasRepeat(seq) ==
  \E j \in 1..Len(seq) : \E k \in 1..Len(seq) : j # k /\ seq[j] = seq[k]

Returned(c, o) == status[c] = "done" /\ op[c] = o

\* The sequence a finished get_dependancy_list call returned.
Out(c) == result[c][1]

\* --------------------------------------------------------------- C1
\* C1: every finished get_dependancy_list call returns the reference
\* post-order flattening of the tree (each child's flattened subtree, then the
\* child's identifier, children in declared order); on the mock_dag tree that
\* is aa, ab, a, baa, ba, bba, bb, bc, b, ca, c.
C1_PostOrder ==
  \A c \in Calls :
    Returned(c, "walk") =>
      /\ result[c] = Some(Flatten(tree))
      /\ tree = mock_dag =>
           Out(c) = <<"aa", "ab", "a", "baa", "ba", "bba", "bb", "bc", "b",
                      "ca", "c">>

C1_Witness ==
  \E c \in Calls :
    /\ Returned(c, "walk")
    /\ tree = mock_dag
    /\ Len(Out(c)) = 11

\* --------------------------------------------------------------- C2
\* C2 as stated: in the returned sequence every occurrence of a non-root
\* node's identifier comes after some occurrence of the identifier of each of
\* its proper descendants.
C2_Original ==
  \A c \in Calls :
    Returned(c, "walk") =>
      \A p \in Paths(tree) \ {<<>>} : \A q \in Paths(tree) :
        Below(p, q) =>
          \A k \in Occurrences(Out(c), NodeAt(tree, p).id) :
            \E j \in Occurrences(Out(c), NodeAt(tree, q).id) : j < k

\* The identifier of the node at p is carried by no other non-root node.
UniqueBelowRoot(t, p) ==
  \A r \in Paths(t) \ {<<>>, p} : NodeAt(t, r).id # NodeAt(t, p).id

\* C2 as amended: the same, for every non-root node whose identifier no other
\* non-root node carries.
C2_BuildOrder ==
  \A c \in Calls :
    Returned(c, "walk") =>
      \A p \in Paths(tree) \ {<<>>} : \A q \in Paths(tree) :
        (Below(p, q) /\ UniqueBelowRoot(tree, p)) =>
          \A k \in Occurrences(Out(c), NodeAt(tree, p).id) :
            \E j \in Occurrences(Out(c), NodeAt(tree, q).id) : j < k

\* A finished walk of a tree with a repeated identifier in which a node with
\* an identifier of its own has a dependency.
C2_Witness ==
  \E c \in Calls :
    /\ Returned(c, "walk")
    /\ ~Distinct(tree)
    /\ \E p \in Paths(tree) \ {<<>>} : \E q \in Paths(tree) :
         /\ Below(p, q)
         /\ UniqueBelowRoot(tree, p)
         /\ Occurrences(Out(c), NodeAt(tree, p).id) # {}

\* --------------------------------------------------------------- C3
\* C3: has_cycle returns true on every tree in which two different nodes
\* carry the same identifier.
C3_RepeatedIsCycle ==
  \A c \in Calls :
    (Returned(c, "has_cycle") /\ ~Distinct(tree)) => result[c] = Some(TRUE)

\* True was returned for two same-named nodes in independent branches, the
\* later of which has children of its own.
C3_Witness ==
  \E c \in Calls :
    /\ Returned(c, "has_cycle")
    /\ result[c] = Some(TRUE)
    /\ \E p \in Paths(tree) : \E q \in Paths(tree) :
         /\ p # q /\ ~Below(p, q) /\ ~Below(q, p)
         /\ NodeAt(tree, p).id = NodeAt(tree, q).id
         /\ NodeAt(tree, q).deps # <<>>
         /\ \A r \in Paths(tree) : \A u \in Paths(tree) :
              (r # u /\ NodeAt(tree, r).id = NodeAt(tree, u).id)
                => {r, u} = {p, q}

\* --------------------------------------------------------------- C4
\* C4: has_cycle returns false on every tree whose identifiers are pairwise
\* distinct, a root without children included; on such a tree no node, leaf
\* or not, hands "duplicate found" to its parent.
C4_DistinctIsNoCycle ==
  \A c \in Calls :
    /\ (Returned(c, "has_cycle") /\ Distinct(tree)) => result[c] = Some(FALSE)
    /\ (At(c, "has_cycle", "recv") /\ Distinct(tree)) => ret[c] # Some(TRUE)

C4_Witness ==
  \E c \in Calls :
    /\ Returned(c, "has_cycle")
    /\ Distinct(tree)
    /\ Cardinality(Paths(tree)) >= 3
    /\ result[c] = Some(FALSE)

\* --------------------------------------------------------------- C5
\* C5 as stated: no entry of the returned sequence equals the root's
\* identifier.
C5_Original ==
  \A c \in Calls :
    Returned(c, "walk") => Occurrences(Out(c), tree.id) = {}

\* C5 as amended: the root node contributes no entry, that is, the entries
\* equal to the root's identifier are as many as the descendants carrying it
\* (none when no descendant repeats the root's identifier).
C5_RootNotListed ==
  \A c \in Calls :
    Returned(c, "walk") =>
      Cardinality(Occurrences(Out(c), tree.id)) =
        Cardinality({p \in Paths(tree) \ {<<>>} : NodeAt(tree, p).id = tree.id})

C5_Witness ==
  \E c \in Calls :
    /\ Returned(c, "walk")
    /\ Len(Out(c)) >= 2
    /\ Occurrences(Out(c), tree.id) = {}

\* --------------------------------------------------------------- C6
\* C6: on a tree without repeated identifiers the returned sequence is as long
\* as the root has descendants.
C6_Length ==
  \A c \in Calls :
    (Returned(c, "walk") /\ Distinct(tree)) =>
      Len(Out(c)) = Cardinality(Paths(tree)) - 1

C6_Witness ==
  \E c \in Calls :
    /\ Returned(c, "walk")
    /\ Distinct(tree)
    /\ Len(Out(c)) = 2
    /\ \E k \in 1..Len(tree.deps) : tree.deps[k].deps = <<>>

\* --------------------------------------------------------------- C7
\* C7: whatever the interleaving of the calls' steps, every call returns what
\* the operation returns when run alone on the tree.
C7_Independent ==
  \A c \in Calls :
    /\ Returned(c, "walk") => result[c] = Some(get_dependancy_list(tree))
    /\ Returned(c, "has_cycle") => result[c] = Some(has_cycle(tree))

\* Two has_cycle calls that overlapped have both returned.
C7_Witness ==
  \E c \in Calls : \E d \in Calls :
    /\ c # d
    /\ Returned(c, "has_cycle") /\ overlap[c]
    /\ Returned(d, "has_cycle") /\ overlap[d]
    /\ tree.deps # <<>>

\* --------------------------------------------------------------- C8
\* The value a finished call holds: a boolean, or a sequence of identifiers.
ReturnsValue(c) ==
  /\ IsSome(result[c])
  /\ op[c] = "has_cycle" => result[c][1] \in BOOLEAN
  /\ op[c] = "walk" =>
       \A k \in 1..Len(Out(c)) :
         \E p \in Paths(tree) : Out(c)[k] = NodeAt(tree, p).id

\* C8: every call in progress eventually returns, a boolean for has_cycle and
\* a sequence for get_dependancy_list; none ends in a fault.
C8_Terminates ==
  \A c \in Calls :
    (status[c] = "running") ~> (status[c] = "done" /\ ReturnsValue(c))

C8_Witness ==
  \E c \in Calls :
    /\ status[c] = "done"
    /\ ~Distinct(tree)
    /\ ReturnsValue(c)
    /\ Cardinality(Paths(tree)) >= 4

\* --------------------------------------------------------------- C9
\* C9: throughout a has_cycle call the tracking set holds the identifier of
\* every node entered so far, the nodes of subtrees already returned from
\* included.
C9_TrackerKeepsAll ==
  \A c \in Calls :
    (op[c] = "has_cycle" /\ status[c] \in {"running", "done"}) =>
      entered[c] \subseteq visited[c]

\* A later branch is being entered while the set still holds an identifier
\* that is not on the current path.
C9_Witness ==
  \E c \in Calls :
    /\ At(c, "has_cycle", "entry")
    /\ Len(frames[c]) >= 2
    /\ \E x \in visited[c] :
         \A k \in 1..Len(frames[c]) : frames[c][k].node.id # x

\* --------------------------------------------------------------- C10
\* C10: has_cycle is true exactly when the root's identifier followed by the
\* dependency list holds some identifier twice.
C10_Agree ==
  \A c \in Calls :
    /\ Returned(c, "has_cycle") =>
         (result[c][1] <=> HasRepeat(<<tree.id>> \o get_dependancy_list(tree)))
    /\ Returned(c, "walk") =>
         (has_cycle(tree) <=> HasRepeat(<<tree.id>> \o Out(c)))

C10_Witness ==
  \E c \in Calls :
    /\ Returned(c, "has_cycle")
    /\ result[c] = Some(TRUE)
    /\ tree.id \notin {NodeAt(tree, p).id : p \in Paths(tree) \ {<<>>}}
    /\ HasRepeat(get_dependancy_list(tree))

====
